---- MODULE Spec2Model ----
(***************************************************************************)
(* Spool tracker (src/main.py): the spools / spool_states / events tables  *)
(* of the SQLite database and the two handlers that write them,            *)
(* update_spool (POST /update/{spool_id}) and import_excel.  Handlers are  *)
(* plain `def` routes, so FastAPI runs them on worker threads, each with   *)
(* its own Session (get_db); they interleave at their database             *)
(* statements.  A Session's writes are sent at flush inside one SQLite     *)
(* transaction, which holds the database write lock until COMMIT and is    *)
(* invisible to the other connections until then.                          *)
(***************************************************************************)
EXTENDS Integers, Sequences, FiniteSets, TLC

\* ------------------------------------------------------------- bounds
MaxClock == 1
MaxCalls == 4

Proc == {"p1", "p2"}

\* ------------------------------------------------------------- enums
Stage == {"FABRICACAO", "LOGISTICA1", "PINTURA", "LOGISTICA2", "BORDO"}

STAGE_ORDER == <<"FABRICACAO", "LOGISTICA1", "PINTURA", "LOGISTICA2", "BORDO">>

Status == {"PENDENTE", "LIBERADO", "BLOQUEADO"}

\* list.index(stage): the first position holding stage
StageIndex(stage) == CHOOSE i \in 1..Len(STAGE_ORDER) : STAGE_ORDER[i] = stage

\* STAGE_ORDER[i - 1] without the `if i > 0`: Python's index -1 is the last
prev_stage_wrap(stage) ==
    LET i == StageIndex(stage)
    IN  STAGE_ORDER[IF i > 1 THEN i - 1 ELSE Len(STAGE_ORDER)]

\* prev_stage: None is the string "None"
prev_stage(stage) ==
    LET i == StageIndex(stage)
    IN  IF i > 1 THEN STAGE_ORDER[i - 1] ELSE "None"

\* ------------------------------------------------------------- inputs
\* The form fields of POST /update are free strings (stage: str = Form(...)).
\* Three submissions: two that share status and note and differ in stage and
\* location, and one whose stage and status are outside the enumerations.
Payload(stage, status, location, note) ==
    [stage |-> stage, status |-> status, location |-> location, note |-> note]

PayloadIn == {Payload("PINTURA", "PENDENTE", "", ""),
              Payload("BORDO", "PENDENTE", "Yard A", ""),
              Payload("SOLDA", "ARQUIVADO", "", "refazer")}
SpoolIdIn == {1, 2}

\* Worksheet cells of the tag column, as character sequences; <<>> is an
\* empty cell (None and "" are both falsy in `if val:`).
CellIn == {<<>>, <<" ", "A">>, <<"B">>}
SheetIn == {<<a, b>> : a \in CellIn, b \in CellIn}

\* ------------------------------------------------------------- state
VARIABLES spools, spool_states, events, clock, lock, pc, req, tx, resp, calls,
          ret

vars == <<spools, spool_states, events, clock, lock, pc, req, tx, resp, calls,
          ret>>

NoTx == [active |-> FALSE, spools |-> {}, spool_states |-> {}, events |-> <<>>]

NoReq == [handler |-> "", spool_id |-> 0, stage |-> "", status |-> "", location |-> "",
          note |-> "", st |-> {}, now |-> 0, rows |-> <<>>, pending |-> {}]

\* No query has returned
NoRet == [fn |-> "", arg |-> <<>>, val |-> {}]

\* No response: the step just taken sent none
NoResp == [code |-> 0, handler |-> "", spool_id |-> 0]

\* str.strip(): leading and trailing blanks removed
RECURSIVE LStrip(_)
LStrip(s) == IF s # <<>> /\ Head(s) = " " THEN LStrip(Tail(s)) ELSE s

RECURSIVE RStrip(_)
RStrip(s) ==
    IF s # <<>> /\ s[Len(s)] = " " THEN RStrip(SubSeq(s, 1, Len(s) - 1)) ELSE s

Strip(s) == RStrip(LStrip(s))

\* The tables as connection p sees them: its own open transaction, else
\* the committed database.
View(p) ==
    IF tx[p].active
    THEN [spools |-> tx[p].spools, spool_states |-> tx[p].spool_states,
          events |-> tx[p].events]
    ELSE [spools |-> spools, spool_states |-> spool_states, events |-> events]

\* INTEGER PRIMARY KEY: the next rowid is the largest one plus one
MaxId(rows) == IF rows = {} THEN 0 ELSE CHOOSE m \in {r.id : r \in rows} :
                                          \A r \in rows : r.id <= m

\* Mutant of TagUnique: the tag column without its unique constraint
TagNotUnique(rows, tag) == TRUE

\* Spool.tag unique=True
TagUnique(rows, tag) == \A r \in rows : r.tag # tag

\* Mutant of StatePkFree: spool_states without its primary key
StatePkAbsent(rows, id) == TRUE

\* SpoolState.spool_id primary_key=True
StatePkFree(rows, id) == \A r \in rows : r.spool_id # id

Init ==
    /\ spools = {}
    /\ spool_states = {}
    /\ events = <<>>
    /\ clock = 0
    /\ lock = "none"
    /\ pc = [p \in Proc |-> "idle"]
    /\ req = [p \in Proc |-> NoReq]
    /\ tx = [p \in Proc |-> NoTx]
    /\ resp = NoResp
    /\ calls = 0
    /\ ret = NoRet

\* The handler of p (handler, called for spool id) ends with HTTP status
\* code: resp is the response the step just taken sent.  Its Session is
\* closed (get_db), which rolls back what it had not committed.
Respond(p, code, handler, id) ==
    /\ pc' = [pc EXCEPT ![p] = "idle"]
    /\ req' = [req EXCEPT ![p] = NoReq]
    /\ tx' = [tx EXCEPT ![p] = NoTx]
    /\ resp' = [code |-> code, handler |-> handler, spool_id |-> id]
    /\ lock' = IF lock = p THEN "none" ELSE lock

Finish(p, code) == Respond(p, code, req[p].handler, req[p].spool_id)

\* ------------------------------------------------------------- update_spool
\* Mutant of SpoolFound: the `if not spool` check left out
SpoolAssumedFound(rows, id) == TRUE

\* db.query(Spool).get(spool_id) finds a row
SpoolFound(rows, id) == \E s \in rows : s.id = id

\* POST /update/{spool_id} with the form fields as given, up to the read of
\* the state:
\*     spool = db.query(Spool).get(spool_id)
\*     if not spool: raise HTTPException(404)
\*     st = spool.state
\* The two SELECTs are one step: a spool once found stays found (no code
\* deletes one), so the first commutes with every step of the other
\* requests.
BeginUpdate(p) ==
    /\ pc[p] = "idle"
    /\ calls < MaxCalls
    /\ calls' = calls + 1
    /\ \E id \in SpoolIdIn, f \in PayloadIn :
          IF SpoolFound(spools, id)
          THEN /\ req' = [req EXCEPT ![p] =
                            [NoReq EXCEPT !.handler = "update",
                                          !.spool_id = id,
                                          !.stage = f.stage,
                                          !.status = f.status,
                                          !.location = f.location,
                                          !.note = f.note,
                                          !.st = {s \in spool_states :
                                                    s.spool_id = id}]]
               /\ pc' = [pc EXCEPT ![p] = "utcnow"]
               /\ resp' = NoResp
               /\ UNCHANGED <<lock, tx>>
          ELSE Respond(p, 404, "update", id)
    /\ UNCHANGED <<spools, spool_states, events, clock, ret>>

\* now = datetime.utcnow(): clock is the latest time any request has read,
\* and a reading is that time or a later one.
ReadNow(p) ==
    /\ pc[p] = "utcnow"
    /\ \E t \in clock..MaxClock :
          /\ clock' = t
          /\ req' = [req EXCEPT ![p].now = t]
    /\ pc' = [pc EXCEPT ![p] = "flush"]
    /\ resp' = NoResp
    /\ UNCHANGED <<spools, spool_states, events, lock, tx, calls, ret>>

\* st = SpoolState(spool_id=..., stage=..., ...); updated_by is never set
NewState(r) ==
    [spool_id |-> r.spool_id, stage |-> r.stage, status |-> r.status,
     location |-> r.location, note |-> r.note, updated_at |-> r.now,
     updated_by |-> "None"]

\* st.stage = stage; ...; st.updated_at = now on the loaded row old.  The
\* unit of work sends UPDATE ... SET only for the attributes whose value
\* differs from the loaded one, so row (what the table holds at flush)
\* keeps its other columns.
UpdatedState(row, old, r) ==
    [row EXCEPT !.stage = IF r.stage # old.stage THEN r.stage ELSE @,
                !.status = IF r.status # old.status THEN r.status ELSE @,
                !.location = IF r.location # old.location THEN r.location ELSE @,
                !.note = IF r.note # old.note THEN r.note ELSE @,
                !.updated_at = IF r.now # old.updated_at THEN r.now ELSE @]

\* db.add(Event(spool_id=..., ts=now, action="UPDATE", ...)); user_id is
\* never set; id is the next rowid
NewEvent(log, r) ==
    [id |-> Len(log) + 1, spool_id |-> r.spool_id, user_id |-> "None",
     ts |-> r.now, action |-> "UPDATE", stage |-> r.stage,
     status |-> r.status, location |-> r.location, note |-> r.note]

\* Mutant of FlushedStates: the UPDATE without its WHERE spool_id = ...
FlushedStatesAllRows(p) ==
    IF req[p].st = {}
    THEN View(p).spool_states \cup {NewState(req[p])}
    ELSE LET old == CHOOSE s \in req[p].st : TRUE
         IN  {UpdatedState(s, [old EXCEPT !.spool_id = s.spool_id], req[p]) :
              s \in View(p).spool_states}

\* The spool_states table after the flush of the state write
FlushedStates(p) ==
    IF req[p].st = {}
    THEN View(p).spool_states \cup {NewState(req[p])}
    ELSE LET old == CHOOSE s \in req[p].st : TRUE
         IN  {IF s.spool_id = old.spool_id
              THEN UpdatedState(s, old, req[p]) ELSE s :
              s \in View(p).spool_states}

\* Mutant of FlushedEvents: the Event written over the latest row of the
\* log instead of being added to it
FlushedEventsReplace(p) ==
    IF View(p).events = <<>>
    THEN <<NewEvent(<<>>, req[p])>>
    ELSE [View(p).events EXCEPT ![Len(View(p).events)] =
             NewEvent(SubSeq(View(p).events, 1, Len(View(p).events) - 1), req[p])]

\* The events table after the flush of the Event
FlushedEvents(p) == Append(View(p).events, NewEvent(View(p).events, req[p]))

\* Mutant of FlushUpdate: the state write committed on its own, before the
\* Event is
FlushUpdateTwoCommits(p) ==
    /\ pc[p] = "flush"
    /\ lock = "none"
    /\ IF req[p].st = {} /\ ~StatePkFree(View(p).spool_states, req[p].spool_id)
       THEN Finish(p, 500) /\ UNCHANGED spool_states
       ELSE /\ spool_states' = FlushedStates(p)
            /\ tx' = [tx EXCEPT ![p] = [active |-> TRUE,
                                        spools |-> spools,
                                        spool_states |-> FlushedStates(p),
                                        events |-> FlushedEvents(p)]]
            /\ lock' = p
            /\ pc' = [pc EXCEPT ![p] = "commit"]
            /\ resp' = NoResp
            /\ UNCHANGED req
    /\ UNCHANGED <<spools, events, clock, calls, ret>>

\* Mutant of FlushUpdate: the IntegrityError of the state INSERT swallowed,
\* the Event of the call still written and committed
FlushUpdateIgnoreConflict(p) ==
    /\ pc[p] = "flush"
    /\ lock = "none"
    /\ tx' = [tx EXCEPT ![p] =
                [active |-> TRUE,
                 spools |-> spools,
                 spool_states |->
                    IF req[p].st = {} /\ ~StatePkFree(View(p).spool_states,
                                                      req[p].spool_id)
                    THEN View(p).spool_states ELSE FlushedStates(p),
                 events |-> FlushedEvents(p)]]
    /\ lock' = p
    /\ pc' = [pc EXCEPT ![p] = "commit"]
    /\ resp' = NoResp
    /\ UNCHANGED <<spools, spool_states, events, clock, req, calls, ret>>

\* Mutant of FlushUpdate: BEGIN takes the write lock on one connection and
\* the writes wait for the lock on another
FlushUpdateSecondConnection(p) ==
    /\ pc[p] = "flush"
    /\ lock = "none"
    /\ lock' = p
    /\ resp' = NoResp
    /\ UNCHANGED <<spools, spool_states, events, clock, pc, req, tx, calls,
                   ret>>

\* db.commit(), first half: the flush.  BEGIN takes the write lock; the
\* INSERT of a second spool_states row for the spool is an IntegrityError,
\* which rolls the transaction back and ends the request with 500.
FlushUpdate(p) ==
    /\ pc[p] = "flush"
    /\ lock = "none"
    /\ IF req[p].st = {} /\ ~StatePkFree(View(p).spool_states, req[p].spool_id)
       THEN Finish(p, 500)
       ELSE /\ tx' = [tx EXCEPT ![p] = [active |-> TRUE,
                                        spools |-> spools,
                                        spool_states |-> FlushedStates(p),
                                        events |-> FlushedEvents(p)]]
            /\ lock' = p
            /\ pc' = [pc EXCEPT ![p] = "commit"]
            /\ resp' = NoResp
            /\ UNCHANGED req
    /\ UNCHANGED <<spools, spool_states, events, clock, calls, ret>>

\* db.commit(), second half: COMMIT publishes the transaction and frees the
\* lock; update_spool answers 303, import_excel 200.
Commit(p) ==
    /\ pc[p] = "commit"
    /\ spools' = View(p).spools
    /\ spool_states' = View(p).spool_states
    /\ events' = View(p).events
    /\ Finish(p, IF req[p].handler = "update" THEN 303 ELSE 200)
    /\ UNCHANGED <<clock, calls, ret>>

\* ------------------------------------------------------------- import_excel
\* GET /import_excel: the workbook is read and the header cell looked for.
\* With no cell holding "isom" in rows 1..9, header_row is never bound and
\* the second loop raises (500) before any query.  Otherwise req.rows are
\* the cells of the tag column below the header.
BeginImport(p) ==
    /\ pc[p] = "idle"
    /\ calls < MaxCalls
    /\ calls' = calls + 1
    /\ \/ /\ Respond(p, 500, "import", 0)
       \/ /\ \E sheet \in SheetIn :
                req' = [req EXCEPT ![p] = [NoReq EXCEPT !.handler = "import",
                                                        !.rows = sheet]]
          /\ pc' = [pc EXCEPT ![p] = "imp_row"]
          /\ resp' = NoResp
          /\ UNCHANGED <<lock, tx>>
    /\ UNCHANGED <<spools, spool_states, events, clock, ret>>

\* Mutant of FlushedSpools: INSERT OR REPLACE under the id of the first row
FlushedSpoolsReplace(p) ==
    IF req[p].pending = {} THEN View(p).spools
    ELSE {s \in View(p).spools : s.id # 1} \cup
            {[id |-> 1, tag |-> t] : t \in req[p].pending}

\* The spools table after the INSERT of the pending Spool(tag=...), if any
FlushedSpools(p) ==
    View(p).spools \cup
        {[id |-> MaxId(View(p).spools) + 1, tag |-> t] : t \in req[p].pending}

\* The pending INSERT breaks the unique constraint on spools.tag
TagConflict(p) ==
    \E t \in req[p].pending : ~TagUnique(View(p).spools, t)

\* Mutant of TxWithSpools: a spool_states row written with every new Spool
TxWithSpoolsAndState(p, rows) ==
    [active |-> TRUE, spools |-> rows,
     spool_states |-> View(p).spool_states \cup
        {[spool_id |-> s.id, stage |-> "FABRICACAO", status |-> "PENDENTE",
          location |-> "", note |-> "", updated_at |-> 0,
          updated_by |-> "None"] : s \in rows \ View(p).spools},
     events |-> View(p).events]

\* The transaction of p after a flush that left the spools table as rows
TxWithSpools(p, rows) ==
    [active |-> TRUE, spools |-> rows,
     spool_states |-> View(p).spool_states, events |-> View(p).events]

\* not db.query(Spool).filter_by(tag=tag).first(), on the rows the query sees
TagMissing(rows, tag) == \A s \in rows : s.tag # tag

\* One pass of `for row in range(header_row + 1, ws.max_row + 1)`.  An empty
\* cell is skipped.  Otherwise the query autoflushes the Spool added by an
\* earlier row (BEGIN and INSERT: the write lock is taken and kept), then
\* looks the stripped tag up and adds a Spool when no row has it.
ImportRow(p) ==
    /\ pc[p] = "imp_row"
    /\ req[p].rows # <<>>
    /\ LET val == Head(req[p].rows)
           tag == Strip(val)
       IN  IF val = <<>>
           THEN /\ req' = [req EXCEPT ![p].rows = Tail(@)]
                /\ resp' = NoResp
                /\ UNCHANGED <<pc, tx, lock>>
           ELSE IF req[p].pending = {}
           THEN /\ req' = [req EXCEPT ![p].rows = Tail(@),
                                      ![p].pending =
                                          IF TagMissing(View(p).spools, tag)
                                          THEN {tag} ELSE {}]
                /\ resp' = NoResp
                /\ UNCHANGED <<pc, tx, lock>>
           ELSE /\ lock \in {"none", p}
                /\ IF TagConflict(p)
                   THEN Finish(p, 500)
                   ELSE /\ tx' = [tx EXCEPT ![p] =
                                     TxWithSpools(p, FlushedSpools(p))]
                        /\ lock' = p
                        /\ req' = [req EXCEPT ![p].rows = Tail(@),
                                              ![p].pending =
                                                  IF TagMissing(FlushedSpools(p), tag)
                                                  THEN {tag} ELSE {}]
                        /\ resp' = NoResp
                        /\ UNCHANGED pc
    /\ UNCHANGED <<spools, spool_states, events, clock, calls, ret>>

\* db.commit() after the loop, first half: the flush of the last added Spool
ImportFlush(p) ==
    /\ pc[p] = "imp_row"
    /\ req[p].rows = <<>>
    /\ IF req[p].pending = {}
       THEN /\ pc' = [pc EXCEPT ![p] = "commit"]
            /\ resp' = NoResp
            /\ UNCHANGED <<req, tx, lock>>
       ELSE /\ lock \in {"none", p}
            /\ IF TagConflict(p)
               THEN Finish(p, 500)
               ELSE /\ tx' = [tx EXCEPT ![p] = TxWithSpools(p, FlushedSpools(p))]
                    /\ lock' = p
                    /\ req' = [req EXCEPT ![p].pending = {}]
                    /\ pc' = [pc EXCEPT ![p] = "commit"]
                    /\ resp' = NoResp
    /\ UNCHANGED <<spools, spool_states, events, clock, calls, ret>>

\* The next statement of p is a write (BEGIN ... INSERT/UPDATE)
NeedsLock(p) ==
    \/ pc[p] = "flush"
    \/ /\ pc[p] = "imp_row"
       /\ req[p].pending # {}
       /\ IF req[p].rows = <<>> THEN TRUE ELSE Head(req[p].rows) # <<>>

\* A write while another connection holds the write lock past the busy
\* timeout: OperationalError (database is locked), 500.
Busy(p) ==
    /\ NeedsLock(p)
    /\ lock \notin {"none", p}
    /\ Finish(p, 500)
    /\ UNCHANGED <<spools, spool_states, events, clock, calls, ret>>

Next ==
    \E p \in Proc :
          \/ BeginUpdate(p)
          \/ ReadNow(p)
          \/ FlushUpdate(p)
          \/ BeginImport(p)
          \/ ImportRow(p)
          \/ ImportFlush(p)
          \/ Commit(p)
          \/ Busy(p)

Spec == Init /\ [][Next]_vars

\* ------------------------------------------------------------- properties
\* The CurrentState rows of spool id in a spool_states table
StateOf(rows, id) == {s \in rows : s.spool_id = id}

\* The history of spool id in a log, oldest first (events by id)
EventsOf(log, id) == SelectSeq(log, LAMBDA e : e.spool_id = id)

\* Row or event x holds the four values of y
SameValues(x, y) ==
    /\ x.stage = y.stage
    /\ x.status = y.status
    /\ x.location = y.location
    /\ x.note = y.note

\* p is inside update_spool, past the lookup of the spool
InUpdate(p) == req[p].handler = "update" /\ pc[p] \in {"utcnow", "flush", "commit"}

\* The step ends the handler p was running
Ends(p) == pc[p] # "idle" /\ pc'[p] = "idle"

\* C1: in every reachable state the CurrentState of every spool holds the
\* stage, status, location and note of the spool's most recent Event.
C1_SnapshotEqualsLatestEvent ==
    \A s \in spool_states :
        LET h == EventsOf(events, s.spool_id)
        IN  h # <<>> /\ SameValues(s, h[Len(h)])

\* C2: an update_spool call that overlapped another call on the same spool
\* (the CurrentState it read is no longer the committed one) is neither
\* rejected nor merged nor lost: it ends with 303, appends exactly one Event
\* and leaves the CurrentState equal to its own payload.
C2_ConcurrentUpdatesLastWins ==
    [][\A p \in Proc :
         (/\ InUpdate(p)
          /\ req[p].st # StateOf(spool_states, req[p].spool_id)
          /\ Ends(p))
         => /\ resp'.code = 303
            /\ Len(EventsOf(events', req[p].spool_id))
                 = Len(EventsOf(events, req[p].spool_id)) + 1
            /\ \E s \in spool_states' :
                  s.spool_id = req[p].spool_id /\ SameValues(s, req[p])]_vars

\* C3: the two effects of a transition become visible together.  Whenever
\* the committed CurrentState or the committed history of a spool changes,
\* the step is the COMMIT of one update_spool call on that spool, and it
\* publishes that call's whole transaction: its Event (the history grows by
\* exactly that one) and the spool_states table its flush produced.
C3_TransitionAtomic ==
    [][\A id \in SpoolIdIn :
         (\/ StateOf(spool_states', id) # StateOf(spool_states, id)
          \/ EventsOf(events', id) # EventsOf(events, id))
         => \E p \in Proc :
               /\ pc[p] = "commit" /\ Ends(p)
               /\ req[p].handler = "update" /\ req[p].spool_id = id
               /\ resp'.code = 303
               /\ events' = Append(events, events'[Len(events')])
               /\ SameValues(events'[Len(events')], req[p])
               /\ events'[Len(events')].spool_id = id
               /\ spool_states' = tx[p].spool_states
               /\ StateOf(spool_states', id) # {}]_vars

\* C3 witness: a transaction on a spool is flushed and not committed while
\* another request has just read that spool's committed CurrentState.
C3_Witness ==
    \E p \in Proc, q \in Proc :
        /\ p # q
        /\ pc[p] = "commit" /\ req[p].handler = "update"
        /\ pc[q] = "utcnow" /\ req[q].spool_id = req[p].spool_id
        /\ req[q].st # {}
        /\ req[q].st = StateOf(spool_states, req[p].spool_id)
        /\ req[q].st # StateOf(tx[p].spool_states, req[p].spool_id)
        /\ Len(tx[p].events) = Len(events) + 1

\* C4: no spool ever has more than one CurrentState, a spool has one exactly
\* when it has Events, and the number of Events of a spool changes only by
\* a successful update_spool call on it, by exactly one: N successful calls
\* on a spool that had no state leave N Events and one CurrentState.
C4_OneStatePerSpool ==
    /\ [](\A id \in SpoolIdIn :
            /\ Cardinality(StateOf(spool_states, id)) <= 1
            /\ (StateOf(spool_states, id) # {}) <=> (EventsOf(events, id) # <<>>))
    /\ [][\A id \in SpoolIdIn :
            LET n == Len(EventsOf(events, id))
                m == Len(EventsOf(events', id))
                ok == resp'.code = 303 /\ resp'.spool_id = id
            IN  /\ ok => m = n + 1
                /\ ~ok => m = n]_vars

\* C4 witness: two successful calls on one spool left two Events and one state
C4_Witness ==
    \E id \in SpoolIdIn :
        /\ Len(EventsOf(events, id)) = 2
        /\ Cardinality(StateOf(spool_states, id)) = 1
        /\ resp.code = 303 /\ resp.spool_id = id

\* C5: the Event Log is append-only: every step leaves every recorded Event
\* in place and unchanged, so the log before is a prefix of the log after.
C5_AppendOnly ==
    [][/\ Len(events') >= Len(events)
       /\ SubSeq(events', 1, Len(events)) = events]_vars

\* C5 witness: an Event was appended to a log that already held one
C5_Witness == Len(events) >= 2 /\ resp.code = 303

\* C6: the timestamps of a spool's Events are non-decreasing in the order
\* the Events were committed.
C6_TimestampsNonDecreasing ==
    \A i \in 1..Len(events), j \in 1..Len(events) :
        (i < j /\ events[i].spool_id = events[j].spool_id)
        => events[i].ts <= events[j].ts

\* C7: no two spools share a tag, in the committed table and in every open
\* transaction: a tag looked up again finds the spool created for it.
C7_TagUnique ==
    /\ \A a \in spools, b \in spools : a.tag = b.tag => a = b
    /\ \A p \in Proc : \A a \in tx[p].spools, b \in tx[p].spools :
          a.tag = b.tag => a = b

\* C7 witness: an import whose two rows hold the same tag has looked the tag
\* up twice and created one spool row (not yet committed).
C7_Witness ==
    \E p \in Proc :
        /\ pc[p] = "imp_row" /\ req[p].rows = <<>> /\ req[p].pending = {}
        /\ spools = {}
        /\ tx[p].active
        /\ Cardinality(tx[p].spools) = 1
        /\ \E s \in tx[p].spools : s.tag = <<"A">>

\* The stage order allows new after cur: the same stage, the next one or the
\* previous one
StepAllowed(cur, new) ==
    \/ new = cur
    \/ prev_stage(new) = cur
    \/ prev_stage(cur) = new

\* C8: a successful update_spool call on a spool whose current stage is
\* known moves it to the same, the next or the previous stage; a skip
\* forward or a jump back of two or more is rejected.
C8_StageMonotonic ==
    [][\A p \in Proc :
         (/\ InUpdate(p) /\ Ends(p) /\ resp'.code = 303
          /\ req[p].stage \in Stage
          /\ \E s \in req[p].st : s.stage \in Stage)
         => \A s \in req[p].st : StepAllowed(s.stage, req[p].stage)]_vars

\* The identifiers of the spools in a spools table
IdsOf(rows) == {s.id : s \in rows}

\* C9: update_spool for a spool_id that references no spool answers 404 and
\* changes nothing, and no request gets past the lookup with such an id: no
\* CurrentState and no Event references a spool that does not exist.
C9_UnknownSpoolNotFound ==
    /\ [](/\ \A p \in Proc : InUpdate(p) => req[p].spool_id \in IdsOf(spools)
          /\ \A s \in spool_states : s.spool_id \in IdsOf(spools)
          /\ \A i \in 1..Len(events) : events[i].spool_id \in IdsOf(spools))
    /\ [][/\ (resp'.handler = "update" /\ resp'.spool_id \notin IdsOf(spools))
             => /\ resp'.code = 404
                /\ UNCHANGED <<spools, spool_states, events, tx, lock>>
          /\ resp'.code = 404
             => /\ resp'.spool_id \notin IdsOf(spools)
                /\ UNCHANGED <<spools, spool_states, events, tx, lock>>]_vars

\* C9 witness: a call for a missing spool was answered 404 while another
\* spool exists
C9_Witness ==
    resp.code = 404 /\ spools # {} /\ resp.spool_id \notin IdsOf(spools)

\* C10: every CurrentState and every Event holds a stage that is a member of
\* Stage and a status that is a member of Status.
C10_EnumMembersOnly ==
    /\ \A s \in spool_states : s.stage \in Stage /\ s.status \in Status
    /\ \A i \in 1..Len(events) :
          events[i].stage \in Stage /\ events[i].status \in Status

\* ------------------------------------------------------------- second start
\* The database file outlives the process (init_db creates only what is
\* missing): a start on the file an earlier run left, with one spool, its
\* CurrentState and the Event of its one transition.
InitSeeded ==
    /\ spools = {[id |-> 1, tag |-> <<"A">>]}
    /\ spool_states = {[spool_id |-> 1, stage |-> "PINTURA",
                        status |-> "PENDENTE", location |-> "", note |-> "",
                        updated_at |-> 0, updated_by |-> "None"]}
    /\ events = <<[id |-> 1, spool_id |-> 1, user_id |-> "None", ts |-> 0,
                   action |-> "UPDATE", stage |-> "PINTURA",
                   status |-> "PENDENTE", location |-> "", note |-> ""]>>
    /\ clock = 0
    /\ lock = "none"
    /\ pc = [p \in Proc |-> "idle"]
    /\ req = [p \in Proc |-> NoReq]
    /\ tx = [p \in Proc |-> NoTx]
    /\ resp = NoResp
    /\ calls = 0
    /\ ret = NoRet

SeededSpec == InitSeeded /\ [][Next]_vars

\* C11: a successful update_spool call whose arguments equal those of the
\* call before it on the spool (the spool's latest Event), made after that
\* call had committed, appends an Event with a new identifier and leaves the
\* CurrentState's stage, status, location and note as they were.
C11_RepeatKeepsState ==
    [][\A p \in Proc :
         LET id == req[p].spool_id
             h == EventsOf(events, id)
         IN  (/\ pc[p] = "commit" /\ Ends(p) /\ req[p].handler = "update"
              /\ h # <<>> /\ SameValues(h[Len(h)], req[p])
              /\ req[p].st = StateOf(spool_states, id))
             => /\ Len(events') = Len(events) + 1
                /\ \A i \in 1..Len(events) :
                      events[i].id # events'[Len(events')].id
                /\ \A s \in StateOf(spool_states, id) :
                      \E t \in StateOf(spool_states', id) : SameValues(s, t)]_vars

\* ------------------------------------------------------------------ session
\* request.session["uid"] of the request each worker serves: p1 serves the
\* browser logged in as admin (users.id 1, the one user init_db creates),
\* p2 a client with no session; "None" is Python's None.
SessionUid == [p \in Proc |-> IF p = "p1" THEN "1" ELSE "None"]

\* C12: the Event a successful update_spool call appends carries the user of
\* the call's session (None only when there is no session), and the
\* CurrentState's updated_by is that user.
C12_ActorRecorded ==
    [][\A p \in Proc :
         (pc[p] = "commit" /\ Ends(p) /\ req[p].handler = "update")
         => /\ events'[Len(events')].user_id = SessionUid[p]
            /\ \A s \in StateOf(spool_states', req[p].spool_id) :
                  s.updated_by = SessionUid[p]]_vars

\* C13: the history of a spool, oldest first, is the payloads of the
\* successful update_spool calls on it in the order they were applied, each
\* with action "UPDATE", and the CurrentState is the last of these payloads.
C13_HistoryIsPayloadSequence ==
    /\ [](\A id \in SpoolIdIn : \A i \in 1..Len(EventsOf(events, id)) :
             EventsOf(events, id)[i].action = "UPDATE")
    /\ [][\A p \in Proc :
            LET id == req[p].spool_id
            IN  (pc[p] = "commit" /\ Ends(p) /\ req[p].handler = "update")
                => /\ Len(EventsOf(events', id)) = Len(EventsOf(events, id)) + 1
                   /\ SubSeq(EventsOf(events', id), 1, Len(EventsOf(events, id)))
                        = EventsOf(events, id)
                   /\ SameValues(EventsOf(events', id)[Len(EventsOf(events', id))],
                                 req[p])
                   /\ \E s \in StateOf(spool_states', id) :
                         SameValues(s, req[p])]_vars

\* ------------------------------------------------------------------ queries
\* GET /spools and prev_stage read and write nothing; they are checked on
\* the tables an import can have left: spools 1..n with distinct non-empty
\* tags.
TagIn == {<<"A", "B">>, <<"B">>, <<"a", "b">>}
QueryIn == {<<>>, <<"B">>, <<"a">>, <<"_">>, <<"z">>, <<"A", "B">>}

TableIn ==
    {{[id |-> i, tag |-> t[i]] : i \in 1..Len(t)} :
        t \in {u \in UNION {[1..n -> TagIn] : n \in 0..Cardinality(TagIn)} :
                 \A i, j \in 1..Len(u) : u[i] = u[j] => i = j}}

\* query.limit(100)
Limit == 100

\* SQLite's upper-casing of the ASCII letters, which its LIKE compares by
ToUpper(c) == CASE c = "a" -> "A" [] c = "b" -> "B" [] c = "z" -> "Z"
                [] OTHER -> c

\* text LIKE pat in SQLite: % is any run of characters, _ any one character,
\* every other character itself, ASCII letters without regard to case
RECURSIVE Like(_, _)
Like(pat, text) ==
    IF pat = <<>> THEN text = <<>>
    ELSE IF Head(pat) = "%"
         THEN Like(Tail(pat), text) \/ (text # <<>> /\ Like(pat, Tail(text)))
         ELSE /\ text # <<>>
              /\ (Head(pat) = "_" \/ ToUpper(Head(pat)) = ToUpper(Head(text)))
              /\ Like(Tail(pat), Tail(text))

\* Spool.tag.contains(q): tag LIKE '%' || q || '%', q not escaped
TagContains(tag, q) == Like(<<"%">> \o q \o <<"%">>, tag)

\* The rows of query.filter(...) before the limit; `if q:` skips the filter
\* for the empty string
Filtered(rows, q) == IF q = <<>> THEN rows
                     ELSE {s \in rows : TagContains(s.tag, q)}

\* GET /spools?q=...: with no ORDER BY the rows kept by LIMIT are any
\* Limit of the filtered ones
Search(q) ==
    /\ \E rows \in SUBSET Filtered(spools, q) :
          /\ \/ rows = Filtered(spools, q)
             \/ Cardinality(rows) = Limit
          /\ Cardinality(rows) <= Limit
          /\ ret' = [fn |-> "spools", arg |-> q, val |-> rows]
    /\ UNCHANGED <<spools, spool_states, events, clock, lock, pc, req, tx,
                   resp, calls>>

\* A call of prev_stage(stage)
PrevStage(stage) ==
    /\ ret' = [fn |-> "prev_stage", arg |-> stage, val |-> prev_stage(stage)]
    /\ UNCHANGED <<spools, spool_states, events, clock, lock, pc, req, tx,
                   resp, calls>>

InitQuery ==
    /\ spools \in TableIn
    /\ spool_states = {}
    /\ events = <<>>
    /\ clock = 0
    /\ lock = "none"
    /\ pc = [p \in Proc |-> "idle"]
    /\ req = [p \in Proc |-> NoReq]
    /\ tx = [p \in Proc |-> NoTx]
    /\ resp = NoResp
    /\ calls = 0
    /\ ret = NoRet

NextQuery ==
    \/ \E q \in QueryIn : Search(q)
    \/ \E stage \in Stage : PrevStage(stage)

QuerySpec == InitQuery /\ [][NextQuery]_vars

\* q occurs in tag as a run of equal characters
IsSubstring(q, tag) ==
    \E i \in 0..(Len(tag) - Len(q)) : SubSeq(tag, i + 1, i + Len(q)) = q

\* C14: the /spools search returns only spools whose tag contains the query
\* as a case-sensitive substring, all of them when there are at most Limit,
\* never more than Limit; the empty query returns every spool and a query
\* contained in no tag returns nothing.
C14_SearchIsCaseSensitiveSubstring ==
    ret.fn = "spools" =>
        LET match == {s \in spools : IsSubstring(ret.arg, s.tag)}
        IN  /\ ret.val \subseteq match
            /\ Cardinality(match) <= Limit => ret.val = match
            /\ Cardinality(ret.val) <= Limit
            /\ ret.arg = <<>> /\ Cardinality(spools) <= Limit
                  => ret.val = spools
            /\ match = {} => ret.val = {}

\* C15: prev_stage returns the stage just before its argument in the order
\* FABRICACAO, LOGISTICA1, PINTURA, LOGISTICA2, BORDO, and None exactly for
\* FABRICACAO.
C15_PrevStageIsPredecessor ==
    ret.fn = "prev_stage" =>
        /\ ret.arg = "FABRICACAO" => ret.val = "None"
        /\ ret.arg = "LOGISTICA1" => ret.val = "FABRICACAO"
        /\ ret.arg = "PINTURA" => ret.val = "LOGISTICA1"
        /\ ret.arg = "LOGISTICA2" => ret.val = "PINTURA"
        /\ ret.arg = "BORDO" => ret.val = "LOGISTICA2"
        /\ ret.val = "None" => ret.arg = "FABRICACAO"

C15_Witness ==
    ret.fn = "prev_stage" /\ ret.arg = "FABRICACAO" /\ ret.val = "None"

\* ----------------------------------------------------------------- fairness
\* The next statement of the handler p is running
Step(p) ==
    \/ ReadNow(p)
    \/ FlushUpdate(p)
    \/ ImportRow(p)
    \/ ImportFlush(p)
    \/ Commit(p)
    \/ Busy(p)

\* Every worker thread that can run its next statement eventually runs it;
\* requests arrive or not as clients please.
FairSpec == Spec /\ \A p \in Proc : WF_vars(Step(p))

\* C16: every update_spool call that has started eventually ends (with a
\* commit or a failure), whatever the other worker is doing.
C16_EveryCallCompletes ==
    \A p \in Proc : (req[p].handler = "update") ~> (pc[p] = "idle")

C16_Witness ==
    \E p, q \in Proc :
        /\ p # q
        /\ req[p].handler = "update" /\ pc[p] = "flush"
        /\ req[q].handler = "update" /\ lock = q
        /\ req[p].spool_id = req[q].spool_id

\* ------------------------------------------------------ creation and frames
\* The step is the COMMIT of an update_spool call of p
CommitsUpdate(p) == pc[p] = "commit" /\ Ends(p) /\ req[p].handler = "update"

\* C17: a spool has no CurrentState and no Event until the first successful
\* update_spool call on it; that call creates the CurrentState with the
\* submitted values and its timestamp, every later call leaves the spool
\* with that one row, and a spool that has a CurrentState keeps having one.
C17_StateCreatedLazily ==
    [][/\ \A s \in spools' \ spools :
             /\ StateOf(spool_states', s.id) = {}
             /\ EventsOf(events', s.id) = <<>>
       /\ \A id \in SpoolIdIn :
             /\ (/\ StateOf(spool_states, id) = {}
                 /\ EventsOf(events, id) = <<>>
                 /\ \/ StateOf(spool_states', id) # {}
                    \/ EventsOf(events', id) # <<>>)
                => \E p \in Proc :
                      /\ CommitsUpdate(p) /\ req[p].spool_id = id
                      /\ \E t \in StateOf(spool_states', id) :
                            /\ StateOf(spool_states', id) = {t}
                            /\ SameValues(t, req[p])
                            /\ t.updated_at = req[p].now
             /\ StateOf(spool_states, id) # {}
                => Cardinality(StateOf(spool_states', id)) = 1]_vars

C17_Witness ==
    \E id \in SpoolIdIn :
        /\ Cardinality(StateOf(spool_states, id)) = 1
        /\ Len(EventsOf(events, id)) = 2
        /\ resp.code = 303 /\ resp.spool_id = id

\* C18: an update_spool call on a spool, however it ends, leaves the spools
\* table as it is and leaves the CurrentState and the Events of every other
\* spool as they are.
C18_TransitionTouchesOneSpool ==
    [][resp'.handler = "update"
       => /\ spools' = spools
          /\ \A id \in SpoolIdIn \ {resp'.spool_id} :
                /\ StateOf(spool_states', id) = StateOf(spool_states, id)
                /\ EventsOf(events', id) = EventsOf(events, id)]_vars

C18_Witness ==
    /\ resp.handler = "update" /\ resp.code = 303
    /\ \E id \in SpoolIdIn \ {resp.spool_id} : StateOf(spool_states, id) # {}
    /\ Len(EventsOf(events, resp.spool_id)) = 2

\* C19: of two update_spool calls that both found a spool without
\* CurrentState, the one that reaches its flush after the other has committed
\* ends with an error and changes nothing, its Event included; the spool
\* never has two CurrentStates, and the Events of a spool grow by exactly one
\* in each committing call and in no other step.
C19_SecondFirstTransitionRejected ==
    /\ [](\A id \in SpoolIdIn : Cardinality(StateOf(spool_states, id)) <= 1)
    /\ [][/\ \A p \in Proc :
                (/\ req[p].handler = "update" /\ pc[p] = "flush"
                 /\ req[p].st = {}
                 /\ StateOf(spool_states, req[p].spool_id) # {}
                 /\ pc'[p] # pc[p])
                => /\ resp'.code = 500 /\ resp'.spool_id = req[p].spool_id
                   /\ pc'[p] = "idle"
                   /\ tx'[p] = NoTx
                   /\ UNCHANGED <<spools, spool_states, events>>
          /\ \A id \in SpoolIdIn :
                Len(EventsOf(events', id)) =
                    Len(EventsOf(events, id)) +
                    (IF resp'.code = 303 /\ resp'.spool_id = id THEN 1 ELSE 0)]_vars

C19_Witness ==
    \E p \in Proc :
        /\ req[p].handler = "update" /\ pc[p] = "flush" /\ req[p].st = {}
        /\ lock = "none"
        /\ Cardinality(StateOf(spool_states, req[p].spool_id)) = 1
        /\ Len(EventsOf(events, req[p].spool_id)) = 1

\* C20: no step removes a spool or changes the id or the tag of one, and an
\* import_excel call, however it ends, leaves every CurrentState and every
\* Event as it is.
C20_ImportOnlyAddsSpools ==
    [][/\ spools \subseteq spools'
       /\ resp'.handler = "import"
          => spool_states' = spool_states /\ events' = events]_vars

C20_Witness ==
    /\ resp.handler = "import" /\ resp.code = 200
    /\ Cardinality(spools) = 2
    /\ spool_states # {}
    /\ events # <<>>

====
